---- MODULE Spec2Model ----
(***************************************************************************)
(* A model of the max_tree crate (src/src/lib.rs): the maximum tree        *)
(* (Node), the settings and telemetry (AiSettings, AiAnalysis) and the     *)
(* search driver (Ai::sub_breadth, Ai::full, Ai::greedy) as a stack        *)
(* machine, one frame per (recursive) call.                                *)
(*                                                                         *)
(* f64 utilities are modelled as integers (every value the model produces  *)
(* is exactly representable, so the f64 arithmetic is exact) and NaN is a  *)
(* sentinel for which every ordered comparison is false.                   *)
(*                                                                         *)
(* The four callbacks are function pointers supplied by the application.   *)
(* The model uses a family of one-dimensional worlds in the style of       *)
(* examples/moon.rs: the context is a position, an action is a             *)
(* displacement, execute fails when the move leaves the world and returns  *)
(* the old position as node data, undo restores the position from the      *)
(* node data, and utility is a table over positions. The callbacks of      *)
(* examples/labyrinth.rs (SpecLab) are modelled as they are written.       *)
(*                                                                         *)
(* Besides the program's state the model keeps a record of the callbacks   *)
(* each step has called and of the executes that still await their undo.   *)
(***************************************************************************)
EXTENDS Integers, Sequences, FiniteSets, TLC

\* ---- bounds of the model ------------------------------------------------
MaxDepthBound == 1      \* settings.max_depth ranges over 0..MaxDepthBound
NumStates == 3          \* contexts (positions) are 0..NumStates-1
MaxActions == 2         \* the action listing has at most MaxActions entries
MaxNodes == 4           \* nodes of a hand-built tree (SpecTree)
MaxCalls == 2           \* top-level driver calls in a row (SpecAgain)

\* ---- the values the inputs are drawn from -----------------------------------
DepthArgs == {0, 1}     \* the depth argument of a top-level call
EpsValues == {0, 1}     \* settings.eps_depth
UtilValues == {0, 1}    \* results of the utility callback
TreeMaxValues == {0, 1} \* evaluated max fields of a hand-built tree
CeilingValues == {0, 2} \* settings.max_mib = Some(..), in node sizes

\* ---- f64 ----------------------------------------------------------------
\* std::f64::NAN: a value outside every utility the model can produce.
NaN == -1000000

is_nan(x) == x = NaN

\* A comparison that orders NaN below every number instead of failing.
Gt_total(x, y) == x > y

\* IEEE comparisons: false as soon as one operand is NaN.
Gt(x, y) == ~is_nan(x) /\ ~is_nan(y) /\ x > y

Ge(x, y) == ~is_nan(x) /\ ~is_nan(y) /\ x >= y

\* ---- state --------------------------------------------------------------
VARIABLES
    settings,   \* AiSettings
    analysis,   \* AiAnalysis
    util,       \* the utility callback's table: position -> utility
    actlist,    \* the vector returned by the actions callback
    tree,       \* the root Node, owning its children
    ctx,        \* the context C
    stack,      \* call stack of the driver, innermost frame last
    hist,       \* the arguments and entry state of the latest top-level call
    op,         \* locals of Node::optimal_path
    world,      \* which set of callbacks the Ai was built with
    upd,        \* the application's walk by Ai::update: its node, the last result
    cb          \* the callbacks issued by the latest step, the open execute brackets

vars == <<settings, analysis, util, actlist, tree, ctx, stack, hist, op, world, upd, cb>>

Ctx == 0 .. (NumStates - 1)

Deltas == {-1, 1}

\* The start positions. Mirroring a world (position c to NumStates-1-c, every
\* displacement negated, the utility table reversed) maps the worlds of Init
\* onto themselves and behaviours onto behaviours, so the starts in the lower
\* half stand for all.
StartStates == {c \in Ctx : 2 * c <= NumStates - 1}

RECURSIVE SeqsUpTo(_, _)
SeqsUpTo(S, n) ==
    IF n = 0 THEN {<<>>}
    ELSE LET shorter == SeqsUpTo(S, n - 1)
         IN  shorter \cup {Append(s, x) : s \in {t \in shorter : Len(t) = n - 1}, x \in S}

\* ---- Node ---------------------------------------------------------------
\* Node::root
root(data) == [max |-> NaN, data |-> data, children |-> <<>>]

\* The node reached from n by following the child indices of path p.
RECURSIVE NodeAt(_, _)
NodeAt(n, p) ==
    IF p = <<>> THEN n ELSE NodeAt(n.children[Head(p)].node, Tail(p))

\* n with the node at path p replaced by new (a write through &mut Node).
RECURSIVE Replace(_, _, _)
Replace(n, p, new) ==
    IF p = <<>> THEN new
    ELSE [n EXCEPT !.children[Head(p)].node = Replace(@, Tail(p), new)]

\* A scan that demands a strictly greater child.
RECURSIVE OptimalFrom_strict(_, _)
OptimalFrom_strict(n, i) ==
    IF i > Len(n.children) THEN 0
    ELSE IF Gt(n.children[i].node.max, n.max) THEN i
    ELSE OptimalFrom_strict(n, i + 1)

\* A scan that keeps the last match instead of returning the first.
RECURSIVE OptimalFrom_last(_, _)
OptimalFrom_last(n, i) ==
    IF i > Len(n.children) THEN 0
    ELSE LET later == OptimalFrom_last(n, i + 1)
         IN  IF later # 0 THEN later
             ELSE IF Ge(n.children[i].node.max, n.max) THEN i ELSE 0

\* A scan with the comparison reversed: the first child whose max <= self.max.
RECURSIVE OptimalFrom_le(_, _)
OptimalFrom_le(n, i) ==
    IF i > Len(n.children) THEN 0
    ELSE IF Ge(n.max, n.children[i].node.max) THEN i
    ELSE OptimalFrom_le(n, i + 1)

\* Node::optimal: scan the children in order, return the first index whose
\* max >= self.max. Indices are 1-based here and 0 stands for None.
RECURSIVE OptimalFrom(_, _)
OptimalFrom(n, i) ==
    IF i > Len(n.children) THEN 0
    ELSE IF Ge(n.children[i].node.max, n.max) THEN i
    ELSE OptimalFrom(n, i + 1)

optimal(n) == OptimalFrom(n, 1)

\* Node::optimal_path as a function of the node: the index of the optimal
\* child, then the optimal path of that child, until optimal() is None.
RECURSIVE optimal_path(_)
optimal_path(n) ==
    IF optimal(n) = 0 THEN <<>>
    ELSE <<optimal(n)>> \o optimal_path(n.children[optimal(n)].node)

\* Node::terminal
terminal(n) == optimal(n) = 0

\* Node::check_unique_actions: the scan of the children from index i with
\* the hash set `seen`; false at the first action already in the set.
RECURSIVE CheckUniqueFrom(_, _, _)
CheckUniqueFrom(n, i, seen) ==
    IF i > Len(n.children) THEN TRUE
    ELSE IF n.children[i].action \in seen THEN FALSE
    ELSE CheckUniqueFrom(n, i + 1, seen \cup {n.children[i].action})

check_unique_actions(n) == CheckUniqueFrom(n, 1, {})

\* ---- AiAnalysis, AiSettings ----------------------------------------------
\* Ai::node_size: size_of::<Node<T, A>>() for a word-sized T and A.
node_size == 64

\* The divisor of AiAnalysis::mib.
MiB == 1048576

\* AiAnalysis::mib as an exact fraction.
mib(an, size) == [num |-> an.node_count * size, den |-> MiB]

\* a >= b on fractions with positive denominators.
GeFrac(a, b) == a.num * b.den >= b.num * a.den

\* The ceiling enforced whether or not the node count is maintained.
memory_exceeded_noflag ==
    IF settings.max_mib.some
    THEN GeFrac(mib(analysis, node_size), settings.max_mib.val)
    ELSE FALSE

\* Ai::memory_exceeded
memory_exceeded ==
    IF settings.analysis
    THEN IF settings.max_mib.some
         THEN GeFrac(mib(analysis, node_size), settings.max_mib.val)
         ELSE FALSE
    ELSE FALSE

\* ---- the callbacks of examples/labyrinth.rs --------------------------------
\* The node data is the position [x, y] (0-based, <<x, y>> here), the
\* context is the map, which no callback changes. Utilities are counted in
\* units of the example's eps_depth, 0.00001, so that they stay integers.
LabMap == <<<<0, 0, 1>>, <<0, 0, 0>>, <<0, 0, 0>>>>

LabStart == <<0, 2>>

LabMaxDepth == 4

LabUnitsPerOne == 100000

\* A utility that reads the map with x and y swapped.
LabUtility_swapped(pos, map) == map[pos[1] + 1][pos[2] + 1] * LabUnitsPerOne

\* fn utility: map[pos[1]][pos[0]] as f64
LabUtility(pos, map) == map[pos[2] + 1][pos[1] + 1] * LabUnitsPerOne

\* fn actions
LabActions == <<"Left", "Right", "Up", "Down">>

\* fn execute: the new position, or Err at an edge of the map.
LabExecute(pos, a, map) ==
    LET x == pos[1]
        y == pos[2]
        err == [ok |-> FALSE, data |-> pos, ctx |-> map]
        Ok(new) == [ok |-> TRUE, data |-> new, ctx |-> map]
    IN  CASE a = "Left" -> IF x <= 0 THEN err ELSE Ok(<<x - 1, y>>)
          [] a = "Right" -> IF x + 1 >= Len(map[1]) THEN err ELSE Ok(<<x + 1, y>>)
          [] a = "Up" -> IF y <= 0 THEN err ELSE Ok(<<x, y - 1>>)
          [] a = "Down" -> IF y + 1 >= Len(map) THEN err ELSE Ok(<<x, y + 1>>)

\* fn undo: nothing to restore.
LabUndo(pos, map) == map

\* ---- the callbacks ------------------------------------------------------
\* In the world "line" the context is a position on a line of NumStates
\* cells, an action moves it by one cell, and the data returned by execute is
\* the position before the move, which undo restores (the scheme of
\* examples/moon.rs: execute returns the old spaceship, undo puts it back).

\* (self.utility)(data, ctx)
utility(data, c) ==
    IF world = "labyrinth" THEN LabUtility(data, c) ELSE util[c]

\* (self.actions)(data, ctx)
actions(data, c) ==
    IF world = "labyrinth" THEN LabActions ELSE actlist

\* (self.execute)(data, a, ctx): Err leaves ctx alone, Ok moves and returns
\* the old position as the new node data.
execute(data, a, c) ==
    IF world = "labyrinth" THEN LabExecute(data, a, c)
    ELSE IF (c + a) \in Ctx
         THEN [ok |-> TRUE, data |-> c, ctx |-> c + a]
         ELSE [ok |-> FALSE, data |-> data, ctx |-> c]

\* An undo that restores nothing.
undo_noop(data, c) == c

\* (self.undo)(data, ctx): the context after the undo.
undo(data, c) ==
    IF world = "labyrinth" THEN LabUndo(data, c) ELSE data

\* A discount that ignores the depth.
utility_with_settings_flat(data, depth, c) ==
    utility(data, c) - settings.eps_depth

\* Ai::utility_with_settings
utility_with_settings(data, depth, c) ==
    LET u == utility(data, c)
        discount_step == (0 - settings.eps_depth) * depth
    IN  u + discount_step

\* ---- frames -------------------------------------------------------------
Frame(fn, path, depth, pc) ==
    [fn |-> fn, path |-> path, depth |-> depth, pc |-> pc, i |-> 1,
     acts |-> <<>>, ctx0 |-> ctx, count0 |-> analysis.node_count]

Top == stack[Len(stack)]

Pop == SubSeq(stack, 1, Len(stack) - 1)

SetTop(f) == [stack EXCEPT ![Len(stack)] = f]

Idle == stack = <<>> /\ op.pc # "loop"

\* ---- the callback log ----------------------------------------------------
\* One call of a callback: which callback, the function that issued it, the
\* path of the node the call is about (for execute and undo: the child the
\* action leads to), the data passed in, and for execute the data returned
\* and whether it was Ok.
Ev(name, who, node, arg, res, ok) ==
    [cb |-> name, who |-> who, node |-> node, arg |-> arg, res |-> res, ok |-> ok]

ActionsEv(who, node, data) == Ev("actions", who, node, data, data, TRUE)

UtilityEv(who, node, data) == Ev("utility", who, node, data, data, TRUE)

ExecuteEv(who, node, data, r) == Ev("execute", who, node, data, r.data, r.ok)

UndoEv(who, node, data) == Ev("undo", who, node, data, data, TRUE)

\* An execute of the search whose undo is still to come: the child it led
\* to and that child's data.
Bracket(who, node, data) == [who |-> who, node |-> node, data |-> data]

Log(evs, open) == [ev |-> evs, open |-> open]

\* A step that issues no callback.
Quiet == Log(<<>>, cb.open)

NoCallbacks == Log(<<>>, <<>>)

UpdIdle == [pc |-> "idle", node |-> <<>>, ret |-> 0]

\* ---- Init ----------------------------------------------------------------
\* Option<f64>: None, or Some(k node sizes expressed in MiB).
NoCeiling == [some |-> FALSE, val |-> [num |-> 0, den |-> 1]]

Ceiling(k) == [some |-> TRUE, val |-> [num |-> k, den |-> MiB \div node_size]]

MaxMibs == {NoCeiling} \cup {Ceiling(k) : k \in CeilingValues}

\* AiSettings, every field independently settable (the fields are pub).
Settings ==
    [max_depth : 0 .. MaxDepthBound,
     eps_depth : EpsValues,
     analysis : BOOLEAN,
     greed_elim : BOOLEAN,
     max_mib : MaxMibs]

\* AiSettings::new
AiSettings_new(max_depth, eps_depth) ==
    [max_depth |-> max_depth, eps_depth |-> eps_depth, analysis |-> FALSE,
     greed_elim |-> TRUE, max_mib |-> NoCeiling]

NoCall ==
    [fn |-> "none", depth |-> 0, fresh |-> FALSE, ctx |-> 0, count |-> 0, n |-> 0]

OpIdle == [pc |-> "idle", node |-> <<>>, res |-> <<>>]

\* AiSettings::new, AiAnalysis::new, Node::root on the start position, an
\* empty call stack.
Init ==
    /\ settings \in {AiSettings_new(d, e) : d \in 0 .. MaxDepthBound, e \in EpsValues}
    /\ analysis = [node_count |-> 0]
    /\ util \in [Ctx -> UtilValues]
    /\ actlist \in SeqsUpTo(Deltas, MaxActions)
    /\ ctx \in StartStates
    /\ tree = root(ctx)
    /\ stack = <<>>
    /\ hist = NoCall
    /\ op = OpIdle
    /\ world = "line"
    /\ upd = UpdIdle
    /\ cb = NoCallbacks

\* ---- top-level calls ------------------------------------------------------
IsFresh(n) == is_nan(n.max) /\ n.children = <<>>

\* The application sets the pub fields of ai.settings that the operation
\* reads (as examples/moon.rs does) and calls ai.<fn>(&mut root, depth, ctx).
Call(fn, depth, an, mm, ge) ==
    /\ Idle
    /\ hist.fn = "none"
    /\ settings' = [settings EXCEPT !.analysis = an, !.max_mib = mm, !.greed_elim = ge]
    /\ hist' = [fn |-> fn, depth |-> depth, fresh |-> IsFresh(tree),
                ctx |-> ctx, count |-> analysis.node_count, n |-> hist.n + 1]
    /\ stack' = <<Frame(fn, <<>>, depth, "entry")>>
    /\ op' = OpIdle
    /\ upd' = UpdIdle
    /\ cb' = Quiet
    /\ UNCHANGED <<analysis, util, actlist, world, tree, ctx>>

CallSubBreadth ==
    \E d \in DepthArgs, an \in BOOLEAN :
        Call("sub_breadth", d, an, settings.max_mib, settings.greed_elim)

CallFull ==
    \E d \in DepthArgs, an \in BOOLEAN, mm \in MaxMibs :
        Call("full", d, an, mm, settings.greed_elim)

CallGreedy ==
    \E d \in DepthArgs, an \in BOOLEAN, mm \in MaxMibs, ge \in BOOLEAN :
        Call("greedy", d, an, mm, ge)

\* ---- Ai::sub_breadth ------------------------------------------------------
\* root.children.clear(); let actions = (self.actions)(&root.data, ctx);
SubBreadthStart ==
    /\ stack # <<>>
    /\ Top.fn = "sub_breadth"
    /\ Top.pc = "entry"
    /\ LET f == Top
           n == NodeAt(tree, f.path)
       IN  /\ tree' = Replace(tree, f.path, [n EXCEPT !.children = <<>>])
           /\ stack' = SetTop([f EXCEPT !.pc = "loop", !.i = 1,
                                        !.acts = actions(n.data, ctx)])
           /\ cb' = Log(<<ActionsEv("sub_breadth", f.path, n.data)>>, cb.open)
    /\ UNCHANGED <<settings, analysis, util, actlist, world, upd, ctx, hist, op>>

\* The loop body without `if utility > root.max {root.max = utility}`.
PushChild_keepmax(n, a, r, u) ==
    [n EXCEPT !.children = Append(@, [action |-> a,
                                      node |-> [max |-> u, data |-> r.data,
                                                children |-> <<>>]])]

\* The loop body inserting the new child in front.
PushChild_front(n, a, r, u) ==
    [n EXCEPT !.max = IF Gt(u, n.max) THEN u ELSE n.max,
              !.children = <<[action |-> a,
                              node |-> [max |-> u, data |-> r.data,
                                        children |-> <<>>]]>> \o @]

\* The node after one iteration of the loop body on action a, given the
\* result r of execute and the discounted utility u of the new data.
PushChild(n, a, r, u) ==
    [n EXCEPT !.max = IF Gt(u, n.max) THEN u ELSE n.max,
              !.children = Append(@, [action |-> a,
                                      node |-> [max |-> u, data |-> r.data,
                                                children |-> <<>>]])]

\* Telemetry that never counts a child.
CountChild_never(an) == an

\* node_count += 1 when settings.analysis
CountChild(an) ==
    IF settings.analysis THEN [an EXCEPT !.node_count = @ + 1] ELSE an

\* One iteration of `for a in &actions`.
SubBreadthStep ==
    /\ stack # <<>>
    /\ Top.fn = "sub_breadth"
    /\ Top.pc = "loop"
    /\ Top.i <= Len(Top.acts)
    /\ LET f == Top
           n == NodeAt(tree, f.path)
           a == f.acts[f.i]
           r == execute(n.data, a, ctx)
           child == Append(f.path, Len(n.children) + 1)
       IN  /\ IF r.ok
              THEN LET u == utility_with_settings(r.data, f.depth + 1, r.ctx)
                   IN  /\ tree' = Replace(tree, f.path, PushChild(n, a, r, u))
                       /\ ctx' = undo(r.data, r.ctx)
                       /\ analysis' = CountChild(analysis)
                       /\ cb' = Log(<<ExecuteEv("sub_breadth", child, n.data, r),
                                      UtilityEv("sub_breadth", child, r.data),
                                      UndoEv("sub_breadth", child, r.data)>>,
                                    cb.open)
              ELSE /\ ctx' = r.ctx
                   /\ cb' = Log(<<ExecuteEv("sub_breadth", child, n.data, r)>>,
                                cb.open)
                   /\ UNCHANGED <<tree, analysis>>
           /\ stack' = SetTop([f EXCEPT !.i = @ + 1])
    /\ UNCHANGED <<settings, util, actlist, world, upd, hist, op>>

\* The loop is over: return to the caller.
SubBreadthReturn ==
    /\ stack # <<>>
    /\ Top.fn = "sub_breadth"
    /\ Top.pc = "loop"
    /\ Top.i > Len(Top.acts)
    /\ stack' = Pop
    /\ cb' = Quiet
    /\ UNCHANGED <<settings, analysis, util, actlist, world, upd, tree, ctx, hist, op>>

\* A prologue that evaluates the node on every visit.
InitMax_always(n, depth, c) ==
    [n EXCEPT !.max = utility_with_settings(n.data, depth, c)]

\* ---- the common prologue of Ai::full and Ai::greedy -----------------------
\* if root.max.is_nan() {root.max = utility_with_settings(..)};
\* self.sub_breadth(root, depth, ctx);
InitMax(n, depth, c) ==
    IF is_nan(n.max)
    THEN [n EXCEPT !.max = utility_with_settings(n.data, depth, c)]
    ELSE n

Entry(fn) ==
    /\ stack # <<>>
    /\ Top.fn = fn
    /\ Top.pc = "entry"
    /\ LET f == Top
           n == NodeAt(tree, f.path)
       IN  /\ tree' = Replace(tree, f.path, InitMax(n, f.depth, ctx))
           /\ stack' = Append(SetTop([f EXCEPT !.pc = "check"]),
                              Frame("sub_breadth", f.path, f.depth, "entry"))
           /\ cb' = Log(IF is_nan(n.max) THEN <<UtilityEv(fn, f.path, n.data)>>
                        ELSE <<>>, cb.open)
    /\ UNCHANGED <<settings, analysis, util, actlist, world, upd, ctx, hist, op>>

\* The depth test off by one.
StopSearch_late(depth) == depth > settings.max_depth \/ memory_exceeded

\* The memory test left out.
StopSearch_nomem(depth) == depth >= settings.max_depth

\* if depth >= self.settings.max_depth {return};
\* if self.memory_exceeded() {return};
StopSearch(depth) == depth >= settings.max_depth \/ memory_exceeded

Check(fn) ==
    /\ stack # <<>>
    /\ Top.fn = fn
    /\ Top.pc = "check"
    /\ stack' = IF StopSearch(Top.depth) THEN Pop
                ELSE SetTop([Top EXCEPT !.pc = "loop", !.i = 1])
    /\ cb' = Quiet
    /\ UNCHANGED <<settings, analysis, util, actlist, world, upd, tree, ctx, hist, op>>

\* The parent's max left as it was after the recursive call.
RaiseMax_never(n, ch) == n

\* if ch.max > root.max {root.max = ch.max}
RaiseMax(n, ch) == IF Gt(ch.max, n.max) THEN [n EXCEPT !.max = ch.max] ELSE n

\* ---- Ai::full -------------------------------------------------------------
FullEntry == Entry("full")

\* A full that returns after the breadth expansion at every depth.
FullCheck_stop ==
    /\ stack # <<>>
    /\ Top.fn = "full"
    /\ Top.pc = "check"
    /\ stack' = Pop
    /\ cb' = Quiet
    /\ UNCHANGED <<settings, analysis, util, actlist, world, upd, tree, ctx, hist, op>>

FullCheck == Check("full")

\* One iteration of `for (a, ch) in &mut root.children` up to the recursive
\* call: execute the child's action and, when Ok, call full on the child.
FullStep ==
    /\ stack # <<>>
    /\ Top.fn = "full"
    /\ Top.pc = "loop"
    /\ Top.i <= Len(NodeAt(tree, Top.path).children)
    /\ LET f == Top
           n == NodeAt(tree, f.path)
           ch == n.children[f.i]
           child == Append(f.path, f.i)
           r == execute(n.data, ch.action, ctx)
       IN  /\ ctx' = r.ctx
           /\ stack' = IF r.ok
                       THEN Append(SetTop([f EXCEPT !.pc = "undo"]),
                                   [Frame("full", child, f.depth + 1, "entry")
                                       EXCEPT !.ctx0 = r.ctx])
                       ELSE SetTop([f EXCEPT !.i = @ + 1])
           /\ cb' = Log(<<ExecuteEv("full", child, n.data, r)>>,
                        IF r.ok
                        THEN Append(cb.open, Bracket("full", child, ch.node.data))
                        ELSE cb.open)
    /\ UNCHANGED <<settings, analysis, util, actlist, world, upd, tree, hist, op>>

\* The rest of the iteration without the undo.
FullUndo_skip ==
    /\ stack # <<>>
    /\ Top.fn = "full"
    /\ Top.pc = "undo"
    /\ LET f == Top
           n == NodeAt(tree, f.path)
           ch == n.children[f.i].node
       IN  /\ ctx' = ctx
           /\ tree' = Replace(tree, f.path, RaiseMax(n, ch))
           /\ stack' = SetTop([f EXCEPT !.pc = "loop", !.i = @ + 1])
           /\ cb' = Quiet
    /\ UNCHANGED <<settings, analysis, util, actlist, world, upd, hist, op>>

\* The rest of the iteration, after the recursive call returned.
FullUndo ==
    /\ stack # <<>>
    /\ Top.fn = "full"
    /\ Top.pc = "undo"
    /\ LET f == Top
           n == NodeAt(tree, f.path)
           ch == n.children[f.i].node
       IN  /\ ctx' = undo(ch.data, ctx)
           /\ tree' = Replace(tree, f.path, RaiseMax(n, ch))
           /\ stack' = SetTop([f EXCEPT !.pc = "loop", !.i = @ + 1])
           /\ cb' = Log(<<UndoEv("full", Append(f.path, f.i), ch.data)>>,
                        SubSeq(cb.open, 1, Len(cb.open) - 1))
    /\ UNCHANGED <<settings, analysis, util, actlist, world, upd, hist, op>>

FullReturn ==
    /\ stack # <<>>
    /\ Top.fn = "full"
    /\ Top.pc = "loop"
    /\ Top.i > Len(NodeAt(tree, Top.path).children)
    /\ stack' = Pop
    /\ cb' = Quiet
    /\ UNCHANGED <<settings, analysis, util, actlist, world, upd, tree, ctx, hist, op>>

\* ---- Ai::greedy -----------------------------------------------------------
GreedyEntry == Entry("greedy")

GreedyCheck == Check("greedy")

\* A swap that leaves the vector as it is.
Swap_none(s, i, j) == s

\* Vec::swap and Vec::truncate on 1-based sequences.
Swap(s, i, j) == [s EXCEPT ![i] = s[j], ![j] = s[i]]

\* A truncate that keeps every element.
Truncate_none(s, len) == s

Truncate(s, len) == IF len < Len(s) THEN SubSeq(s, 1, len) ELSE s

\* The greed_elim branch: keep the chosen child only, as the first child.
Eliminate(n, i) == [n EXCEPT !.children = Truncate(Swap(@, i, 1), 1)]

\* Telemetry that forgets the pruned children.
Uncount_none(an, n) == an

\* node_count -= root.children.len() - 1 when settings.analysis
Uncount(an, n) ==
    IF settings.analysis
    THEN [an EXCEPT !.node_count = @ - (Len(n.children) - 1)]
    ELSE an

\* if let Some(i) = root.optimal() { .. } up to the recursive call: prune
\* when greed_elim, execute the chosen action, call greedy on the child.
\* optimal() = None and a failed execute both fall through to the return.
GreedyStep ==
    /\ stack # <<>>
    /\ Top.fn = "greedy"
    /\ Top.pc = "loop"
    /\ LET f == Top
           n == NodeAt(tree, f.path)
           k == optimal(n)
       IN  IF k = 0
           THEN /\ stack' = Pop
                /\ cb' = Quiet
                /\ UNCHANGED <<tree, analysis, ctx>>
           ELSE LET m == IF settings.greed_elim THEN Eliminate(n, k) ELSE n
                    i == IF settings.greed_elim THEN 1 ELSE k
                    r == execute(m.data, m.children[i].action, ctx)
                IN  /\ tree' = Replace(tree, f.path, m)
                    /\ analysis' = IF settings.greed_elim
                                   THEN Uncount(analysis, n) ELSE analysis
                    /\ ctx' = r.ctx
                    /\ stack' = IF r.ok
                                THEN Append(SetTop([f EXCEPT !.pc = "undo", !.i = i]),
                                            [Frame("greedy", Append(f.path, i),
                                                   f.depth + 1, "entry")
                                                EXCEPT !.ctx0 = r.ctx,
                                                       !.count0 = analysis'.node_count])
                                ELSE Pop
                    /\ cb' = Log(<<ExecuteEv("greedy", Append(f.path, i), m.data, r)>>,
                                 IF r.ok
                                 THEN Append(cb.open,
                                             Bracket("greedy", Append(f.path, i),
                                                     m.children[i].node.data))
                                 ELSE cb.open)
    /\ UNCHANGED <<settings, util, actlist, world, upd, hist, op>>

\* After the recursive call returned: undo, raise max, return.
GreedyUndo ==
    /\ stack # <<>>
    /\ Top.fn = "greedy"
    /\ Top.pc = "undo"
    /\ LET f == Top
           n == NodeAt(tree, f.path)
           ch == n.children[f.i].node
       IN  /\ ctx' = undo(ch.data, ctx)
           /\ tree' = Replace(tree, f.path, RaiseMax(n, ch))
           /\ stack' = Pop
           /\ cb' = Log(<<UndoEv("greedy", Append(f.path, f.i), ch.data)>>,
                        SubSeq(cb.open, 1, Len(cb.open) - 1))
    /\ UNCHANGED <<settings, analysis, util, actlist, world, upd, hist, op>>

\* ---- Node::optimal_path ---------------------------------------------------
\* let mut node = self; let mut res = vec![];
OptimalPathStart ==
    /\ stack = <<>>
    /\ op.pc = "idle"
    /\ upd.pc = "idle"
    /\ op' = [pc |-> "loop", node |-> <<>>, res |-> <<>>]
    /\ cb' = Quiet
    /\ UNCHANGED <<settings, analysis, util, actlist, world, upd, tree, ctx, stack, hist>>

\* A step that always descends into the first child.
OptimalPathStep_first ==
    /\ op.pc = "loop"
    /\ optimal(NodeAt(tree, op.node)) # 0
    /\ op' = [op EXCEPT !.node = Append(@, 1), !.res = Append(@, 1)]
    /\ cb' = Quiet
    /\ UNCHANGED <<settings, analysis, util, actlist, world, upd, tree, ctx, stack, hist>>

\* if let Some(i) = node.optimal() {node = &node.children[i].1; res.push(i)}
OptimalPathStep ==
    /\ op.pc = "loop"
    /\ LET i == optimal(NodeAt(tree, op.node))
       IN  /\ i # 0
           /\ op' = [op EXCEPT !.node = Append(@, i), !.res = Append(@, i)]
    /\ cb' = Quiet
    /\ UNCHANGED <<settings, analysis, util, actlist, world, upd, tree, ctx, stack, hist>>

\* else {break}; res
OptimalPathBreak ==
    /\ op.pc = "loop"
    /\ optimal(NodeAt(tree, op.node)) = 0
    /\ op' = [op EXCEPT !.pc = "done"]
    /\ cb' = Quiet
    /\ UNCHANGED <<settings, analysis, util, actlist, world, upd, tree, ctx, stack, hist>>

\* ---- Ai::update -----------------------------------------------------------
\* The application walks the tree as examples/moon.rs does: `node` starts at
\* the root; each turn calls ai.update(node, ctx) and, on Some(i), moves
\* `node` to children[i]; None ends the walk.

\* An update that answers Some(i) whether or not execute succeeded.
Update_always ==
    /\ stack = <<>>
    /\ op.pc = "idle"
    /\ upd.pc # "done"
    /\ LET n == NodeAt(tree, upd.node)
           i == optimal(n)
       IN  IF i # 0
           THEN LET r == execute(n.data, n.children[i].action, ctx)
                IN  /\ ctx' = r.ctx
                    /\ upd' = [pc |-> "walk", node |-> Append(upd.node, i), ret |-> i]
                    /\ cb' = Log(<<ExecuteEv("update", Append(upd.node, i), n.data, r)>>,
                                 cb.open)
           ELSE /\ ctx' = ctx
                /\ upd' = [upd EXCEPT !.pc = "done", !.ret = 0]
                /\ cb' = Quiet
    /\ UNCHANGED <<settings, analysis, util, actlist, world, tree, stack, hist, op>>

\* An update that puts the context back after the execute.
Update_restoring ==
    /\ stack = <<>>
    /\ op.pc = "idle"
    /\ upd.pc # "done"
    /\ LET n == NodeAt(tree, upd.node)
           i == optimal(n)
       IN  IF i # 0
           THEN LET r == execute(n.data, n.children[i].action, ctx)
                IN  /\ ctx' = ctx
                    /\ upd' = IF r.ok
                              THEN [pc |-> "walk", node |-> Append(upd.node, i), ret |-> i]
                              ELSE [pc |-> "done", node |-> upd.node, ret |-> 0]
                    /\ cb' = Log(<<ExecuteEv("update", Append(upd.node, i), n.data, r)>>,
                                 cb.open)
           ELSE /\ ctx' = ctx
                /\ upd' = [upd EXCEPT !.pc = "done", !.ret = 0]
                /\ cb' = Quiet
    /\ UNCHANGED <<settings, analysis, util, actlist, world, tree, stack, hist, op>>

\* if let Some(i) = node.optimal() {
\*     if (self.execute)(&node.data, &node.children[i].0, ctx).is_ok() {Some(i)}
\*     else {None}
\* } else {None}
Update ==
    /\ stack = <<>>
    /\ op.pc = "idle"
    /\ upd.pc # "done"
    /\ LET n == NodeAt(tree, upd.node)
           i == optimal(n)
       IN  IF i # 0
           THEN LET r == execute(n.data, n.children[i].action, ctx)
                IN  /\ ctx' = r.ctx
                    /\ upd' = IF r.ok
                              THEN [pc |-> "walk", node |-> Append(upd.node, i), ret |-> i]
                              ELSE [pc |-> "done", node |-> upd.node, ret |-> 0]
                    /\ cb' = Log(<<ExecuteEv("update", Append(upd.node, i), n.data, r)>>,
                                 cb.open)
           ELSE /\ ctx' = ctx
                /\ upd' = [upd EXCEPT !.pc = "done", !.ret = 0]
                /\ cb' = Quiet
    /\ UNCHANGED <<settings, analysis, util, actlist, world, tree, stack, hist, op>>

\* ---- the driver specification ----------------------------------------------
Next ==
    \/ CallSubBreadth
    \/ CallFull
    \/ CallGreedy
    \/ SubBreadthStart
    \/ SubBreadthStep
    \/ SubBreadthReturn
    \/ FullEntry
    \/ FullCheck
    \/ FullStep
    \/ FullUndo
    \/ FullReturn
    \/ GreedyEntry
    \/ GreedyCheck
    \/ GreedyStep
    \/ GreedyUndo
    \/ OptimalPathStart
    \/ OptimalPathStep
    \/ OptimalPathBreak
    \/ Update

Spec == Init /\ [][Next]_vars

\* ---- repeated calls ---------------------------------------------------------
\* The application calls the driver again on the root it has already
\* searched, with the settings and the context as the previous call left
\* them: ai.<fn>(&mut root, depth, ctx) once more.
Recall(fn, depth) ==
    /\ Idle
    /\ hist.fn # "none"
    /\ hist.n < MaxCalls
    /\ upd.pc = "idle"
    /\ hist' = [fn |-> fn, depth |-> depth, fresh |-> IsFresh(tree),
                ctx |-> ctx, count |-> analysis.node_count, n |-> hist.n + 1]
    /\ stack' = <<Frame(fn, <<>>, depth, "entry")>>
    /\ op' = OpIdle
    /\ cb' = Quiet
    /\ UNCHANGED <<settings, analysis, util, actlist, world, upd, tree, ctx>>

CallAgain ==
    \E fn \in {"sub_breadth", "full", "greedy"}, d \in DepthArgs : Recall(fn, d)

NextAgain ==
    \/ CallSubBreadth
    \/ CallFull
    \/ CallGreedy
    \/ SubBreadthStart
    \/ SubBreadthStep
    \/ SubBreadthReturn
    \/ FullEntry
    \/ FullCheck
    \/ FullStep
    \/ FullUndo
    \/ FullReturn
    \/ GreedyEntry
    \/ GreedyCheck
    \/ GreedyStep
    \/ GreedyUndo
    \/ OptimalPathStart
    \/ OptimalPathStep
    \/ OptimalPathBreak
    \/ Update
    \/ CallAgain

SpecAgain == Init /\ [][NextAgain]_vars

\* ---- two searches in a row ----------------------------------------------------
\* The application runs greedy on a fresh root, telemetry off and without a
\* ceiling, and then a second search in the same context at the same depth
\* argument: on a new fresh root (Node::root on the same start data) or on
\* the root just searched. hist.prev keeps what the first search was and the
\* tree it left.
PairFirst ==
    \E d \in DepthArgs, ge \in BOOLEAN : Call("greedy", d, FALSE, NoCeiling, ge)

Second(fn, ge, newroot) ==
    /\ Idle
    /\ hist.n = 1
    /\ upd.pc = "idle"
    /\ settings' = [settings EXCEPT !.greed_elim = ge]
    /\ tree' = IF newroot THEN root(ctx) ELSE tree
    /\ hist' = [fn |-> fn, depth |-> hist.depth, fresh |-> IsFresh(tree'),
                ctx |-> ctx, count |-> analysis.node_count, n |-> hist.n + 1,
                prev |-> [fn |-> hist.fn, greed_elim |-> settings.greed_elim,
                          tree |-> tree]]
    /\ stack' = <<Frame(fn, <<>>, hist.depth, "entry")>>
    /\ op' = OpIdle
    /\ cb' = Quiet
    /\ UNCHANGED <<analysis, util, actlist, world, upd, ctx>>

\* let mut root2 = Node::root(..); ai.full(&mut root2, depth, ctx)
FullOnFreshRoot == Second("full", settings.greed_elim, TRUE)

\* ai.settings.greed_elim = !ai.settings.greed_elim;
\* let mut root2 = Node::root(..); ai.greedy(&mut root2, depth, ctx)
GreedyOnFreshRoot == Second("greedy", ~settings.greed_elim, TRUE)

\* ai.full(&mut root, depth, ctx) on the root greedy has searched
FullOnSameRoot == Second("full", settings.greed_elim, FALSE)

NextTwo ==
    \/ PairFirst
    \/ FullOnFreshRoot
    \/ GreedyOnFreshRoot
    \/ FullOnSameRoot
    \/ SubBreadthStart
    \/ SubBreadthStep
    \/ SubBreadthReturn
    \/ FullEntry
    \/ FullCheck
    \/ FullStep
    \/ FullUndo
    \/ FullReturn
    \/ GreedyEntry
    \/ GreedyCheck
    \/ GreedyStep
    \/ GreedyUndo

SpecTwo == Init /\ [][NextTwo]_vars

\* ---- hand-built trees ------------------------------------------------------
\* Node's fields are pub: an application can build any finite tree, with any
\* max values (NaN included), by pushing children. SpecTree explores the
\* node queries on all such trees of at most MaxNodes nodes.

\* The paths of all nodes of n.
RECURSIVE Paths(_)
Paths(n) ==
    {<<>>} \cup UNION {{<<i>> \o p : p \in Paths(n.children[i].node)} :
                       i \in 1 .. Len(n.children)}

Size(n) == Cardinality(Paths(n))

InitTree ==
    /\ settings = AiSettings_new(0, 0)
    /\ analysis = [node_count |-> 0]
    /\ util = [c \in Ctx |-> 0]
    /\ actlist = <<>>
    /\ ctx = 0
    /\ tree \in {[root(0) EXCEPT !.max = m] : m \in TreeMaxValues \cup {NaN}}
    /\ stack = <<>>
    /\ hist = NoCall
    /\ op = OpIdle
    /\ world = "line"
    /\ upd = UpdIdle
    /\ cb = NoCallbacks

\* node.children.push((a, Node {max, data, children: vec![]})) on any node.
AddChild ==
    /\ op.pc # "loop"
    /\ upd.pc = "idle"
    /\ Size(tree) < MaxNodes
    /\ \E p \in Paths(tree), m \in TreeMaxValues \cup {NaN} :
          LET n == NodeAt(tree, p)
              ch == [action |-> 1, node |-> [root(0) EXCEPT !.max = m]]
          IN  tree' = Replace(tree, p, [n EXCEPT !.children = Append(@, ch)])
    /\ op' = OpIdle
    /\ cb' = Quiet
    /\ UNCHANGED <<settings, analysis, util, actlist, world, upd, ctx, stack, hist>>

NextTree ==
    \/ AddChild
    \/ OptimalPathStart
    \/ OptimalPathStep
    \/ OptimalPathBreak
    \/ Update

SpecTree == InitTree /\ [][NextTree]_vars

\* optimal_path is a loop without a suspension point: once entered it keeps
\* taking its steps.
SpecTreeFair ==
    SpecTree /\ WF_vars(OptimalPathStep) /\ WF_vars(OptimalPathBreak)

\* ---- vocabulary of the properties ------------------------------------------
MaxOf(S) == CHOOSE x \in S : \A y \in S : x >= y

MinOf(S) == CHOOSE x \in S : \A y \in S : x <= y

Leaf(n) == n.children = <<>>

\* The latest top-level call was fn and has returned.
Done(fn) == stack = <<>> /\ hist.fn = fn

SearchDone == Done("full") \/ Done("greedy")

\* The context in which the node at path p of n is reached, when n is reached
\* in context c: the actions along p executed in order.
RECURSIVE CtxAt(_, _, _)
CtxAt(n, c, p) ==
    IF p = <<>> THEN c
    ELSE LET ch == n.children[Head(p)]
         IN  CtxAt(ch.node, execute(n.data, ch.action, c).ctx, Tail(p))

\* The own discounted utility of the node at path p of the tree: its utility
\* in its own context minus eps_depth times its depth.
Own(p) ==
    utility(NodeAt(tree, p).data, CtxAt(tree, hist.ctx, p))
        - settings.eps_depth * (hist.depth + Len(p))

\* The max fields of the children of n.
ChildMaxes(n) == {n.children[i].node.max : i \in 1 .. Len(n.children)}

\* The children of n whose max is at least n.max, by IEEE comparison.
AtLeast(n) ==
    {i \in 1 .. Len(n.children) :
        /\ n.children[i].node.max # NaN
        /\ n.max # NaN
        /\ n.children[i].node.max >= n.max}

\* ---- C5 ---------------------------------------------------------------------
\* C5: for every node of every tree, optimal() is the smallest index of a
\* child whose max is >= the node's max, it is none exactly when there is no
\* such child, and terminal() holds exactly when optimal() is none.
C5_OptimalIsFirstAtLeast ==
    \A p \in Paths(tree) :
        LET n == NodeAt(tree, p)
        IN  /\ (optimal(n) = 0) <=> (AtLeast(n) = {})
            /\ AtLeast(n) # {} => optimal(n) = MinOf(AtLeast(n))
            /\ terminal(n) <=> (optimal(n) = 0)

\* A node whose first child is below its max and whose second child is not,
\* next to a child that has children but an uninitialized max.
C5_Witness ==
    /\ Len(tree.children) >= 2
    /\ optimal(tree) = 2
    /\ \E i \in 1 .. Len(tree.children) :
          /\ is_nan(tree.children[i].node.max)
          /\ ~Leaf(tree.children[i].node)
          /\ terminal(tree.children[i].node)

\* ---- C6 ---------------------------------------------------------------------
\* The value returned by optimal_path: each index is optimal() of the node
\* reached by the indices before it, the node reached at the end is terminal,
\* and the result is empty exactly when the start node is terminal.
PathIsOptimalChain(res) ==
    /\ \A j \in 1 .. Len(res) :
          res[j] = optimal(NodeAt(tree, SubSeq(res, 1, j - 1)))
    /\ terminal(NodeAt(tree, res))
    /\ (res = <<>>) <=> terminal(tree)

\* C6: on every finite tree optimal_path() terminates, returns the chain of
\* optimal() choices down to a terminal node (empty exactly when the start
\* node is terminal), and does not modify the tree.
C6_OptimalPath ==
    /\ [](op.pc = "done" => PathIsOptimalChain(op.res))
    /\ [][op.pc = "loop" => tree' = tree]_vars
    /\ (op.pc = "loop") ~> (op.pc = "done")

\* optimal_path returned a path of two steps whose first step is not the
\* first child.
C6_Witness ==
    /\ op.pc = "done"
    /\ Len(op.res) = 2
    /\ op.res[1] = 2

\* ---- C1 ---------------------------------------------------------------------
\* C1: whenever a call of sub_breadth, full or greedy returns (its frame is
\* popped), the context is the context that call was entered with.
C1_CtxRestoredOnReturn ==
    [][Len(stack') < Len(stack) => ctx' = Top.ctx0]_vars

\* full has returned from a search that executed and undid actions two levels
\* deep, and the context is the one it was called with.
C1_Witness ==
    /\ Done("full")
    /\ \E p \in Paths(tree) : Len(p) = 2 /\ CtxAt(tree, hist.ctx, p) # hist.ctx
    /\ \E p \in Paths(tree) : Len(p) = 1 /\ CtxAt(tree, hist.ctx, p) # hist.ctx
    /\ ctx = hist.ctx

\* ---- C2 ---------------------------------------------------------------------
\* The best discounted utility over the state c (reached by d actions, node
\* data `data`) and every state reachable from it by at most n further
\* successful actions, by enumeration of the action sequences.
RECURSIVE Best(_, _, _, _)
Best(data, c, d, n) ==
    LET own == utility(data, c) - settings.eps_depth * d
        oks == {i \in 1 .. Len(actions(data, c)) :
                    execute(data, actions(data, c)[i], c).ok}
    IN  IF n = 0 THEN own
        ELSE MaxOf({own} \cup
                   {Best(execute(data, actions(data, c)[i], c).data,
                         execute(data, actions(data, c)[i], c).ctx, d + 1, n - 1) :
                    i \in oks})

\* full(root, 0, ctx) on a fresh root has returned, no memory ceiling is set.
FullDoneNoCeiling ==
    /\ Done("full")
    /\ hist.fresh
    /\ hist.depth = 0
    /\ ~settings.max_mib.some

\* C2 as stated: root.max is the best discounted utility over the states
\* reachable by at most max_depth successful actions.
C2_AsStated ==
    FullDoneNoCeiling =>
        tree.max = Best(tree.data, hist.ctx, 0, settings.max_depth)

\* C2, amended: root.max is the best discounted utility over the states
\* reachable by at most max_depth + 1 successful actions (the expansion at
\* depth max_depth still creates and scores the children at max_depth + 1).
C2_BestWithinDepthPlusOne ==
    FullDoneNoCeiling =>
        tree.max = Best(tree.data, hist.ctx, 0, settings.max_depth + 1)

\* The best utility is found only at the deepest level, max_depth + 1 = 2.
C2_Witness ==
    /\ FullDoneNoCeiling
    /\ settings.max_depth = 1
    /\ tree.max > Best(tree.data, hist.ctx, 0, 1)

\* ---- C3 ---------------------------------------------------------------------
\* The maximum-tree invariant at the node at path p.
MaxInvariantAt(p) ==
    LET n == NodeAt(tree, p)
    IN  n.max = MaxOf({Own(p)} \cup ChildMaxes(n))

\* C3: after full or greedy returned on a fresh root, every node's max is
\* the maximum of its own discounted utility and its children's max (for a
\* node without children: its own discounted utility).
C3_MaxTreeInvariant ==
    (SearchDone /\ hist.fresh) => \A p \in Paths(tree) : MaxInvariantAt(p)

\* greedy pruned and returned: the root's max comes from a grandchild, above
\* the root's own discounted utility and its child's.
C3_Witness ==
    /\ Done("greedy")
    /\ hist.fresh
    /\ settings.greed_elim
    /\ Len(tree.children) = 1
    /\ ~Leaf(tree.children[1].node)
    /\ tree.max > Own(<<>>)
    /\ tree.max > Own(<<1>>)

\* ---- C4 ---------------------------------------------------------------------
\* C4: after full on a fresh root, every node on the path returned by
\* optimal_path() has max = root.max, and the node at its end has own
\* discounted utility = root.max.
C4_OptimalPathReachesMax ==
    (Done("full") /\ hist.fresh /\ op.pc = "done") =>
        /\ \A j \in 0 .. Len(op.res) :
              NodeAt(tree, SubSeq(op.res, 1, j)).max = tree.max
        /\ Own(op.res) = tree.max

\* The path has two steps and ends in a state better than the root's and
\* than the one in between.
C4_Witness ==
    /\ Done("full")
    /\ hist.fresh
    /\ op.pc = "done"
    /\ Len(op.res) = 2
    /\ Own(op.res) > Own(<<>>)
    /\ Own(op.res) > Own(SubSeq(op.res, 1, 1))

\* ---- C7 ---------------------------------------------------------------------
\* The children sub_breadth is to build for a node with data `data` reached
\* in context c at depth `depth`: one leaf per action of acts whose execute
\* succeeds from c, in order, with the data execute returned and the utility
\* of the resulting state discounted at depth + 1.
RECURSIVE ExpectedChildren(_, _, _, _)
ExpectedChildren(data, c, depth, acts) ==
    IF acts = <<>> THEN <<>>
    ELSE LET r == execute(data, Head(acts), c)
             rest == ExpectedChildren(data, c, depth, Tail(acts))
             leaf == [max |-> utility(r.data, r.ctx) - settings.eps_depth * (depth + 1),
                      data |-> r.data, children |-> <<>>]
         IN  IF r.ok THEN <<[action |-> Head(acts), node |-> leaf]>> \o rest
             ELSE rest

\* sub_breadth is about to return.
AtSubBreadthReturn ==
    /\ stack # <<>>
    /\ Top.fn = "sub_breadth"
    /\ Top.pc = "loop"
    /\ Top.i > Len(Top.acts)

\* C7: when sub_breadth returns, the node's children are exactly the leaves
\* of the actions whose execute succeeded, in listing order, and the node
\* count grew by their number when telemetry is on and not at all otherwise:
\* a failed execute leaves no trace and does not stop the loop.
C7_SubBreadthChildren ==
    [](AtSubBreadthReturn =>
           LET f == Top
               n == NodeAt(tree, f.path)
               exp == ExpectedChildren(n.data, f.ctx0, f.depth, actions(n.data, f.ctx0))
           IN  /\ n.children = exp
               /\ analysis.node_count =
                     f.count0 + (IF settings.analysis THEN Len(exp) ELSE 0))

\* sub_breadth returns after its first action failed and a later one
\* succeeded, with telemetry on.
C7_Witness ==
    /\ AtSubBreadthReturn
    /\ settings.analysis
    /\ Len(Top.acts) = 2
    /\ ~execute(NodeAt(tree, Top.path).data, Top.acts[1], Top.ctx0).ok
    /\ Len(NodeAt(tree, Top.path).children) = 1
    /\ analysis.node_count = Top.count0 + 1

\* ---- C8 ---------------------------------------------------------------------
IsSearch(f) == f.fn \in {"full", "greedy"}

\* C8: a call of full or greedy at a depth >= max_depth never gets past its
\* one breadth expansion and the stop test, the children of a node at such a
\* depth stay leaves, and a search started at depth 0 has no call deeper
\* than max_depth.
C8_StopAtMaxDepth ==
    [](hist.fn \in {"full", "greedy"} =>
           /\ \A k \in 1 .. Len(stack) :
                 IsSearch(stack[k]) =>
                     /\ hist.depth = 0 => stack[k].depth <= settings.max_depth
                     /\ stack[k].depth >= settings.max_depth =>
                           stack[k].pc \in {"entry", "check"}
           /\ \A p \in Paths(tree) :
                 hist.depth + Len(p) >= settings.max_depth =>
                     \A i \in 1 .. Len(NodeAt(tree, p).children) :
                         Leaf(NodeAt(tree, p).children[i].node))

\* greedy from depth 0 descended once, to depth max_depth = 1, and stopped
\* there although the child it reached has a child as good as itself.
C8_Witness ==
    /\ Done("greedy")
    /\ hist.depth = 0
    /\ settings.max_depth = 1
    /\ ~settings.max_mib.some
    /\ \E i \in 1 .. Len(tree.children) :
          /\ ~Leaf(tree.children[i].node)
          /\ optimal(tree.children[i].node) # 0

\* ---- C9 ---------------------------------------------------------------------
\* The estimated usage node_count * node_size bytes is at least the ceiling
\* max_mib, a fraction of MiB (1 MiB = 1048576 bytes).
UsageMeetsCeiling ==
    analysis.node_count * node_size * settings.max_mib.val.den
        >= settings.max_mib.val.num * 1048576

\* The top frame is a search call at its stop test.
AtCheck == stack # <<>> /\ IsSearch(Top) /\ Top.pc = "check"

\* C9: memory_exceeded() is true exactly when telemetry is on, a ceiling is
\* set and the estimated usage is at least the ceiling; with telemetry off or
\* no ceiling, a search below max_depth always goes on past the stop test.
C9_MemoryExceeded ==
    /\ [](memory_exceeded <=>
            (settings.analysis /\ settings.max_mib.some /\ UsageMeetsCeiling))
    /\ [][(AtCheck /\ Top.depth < settings.max_depth
                   /\ (~settings.analysis \/ ~settings.max_mib.some))
            => (Len(stack') = Len(stack) /\ stack'[Len(stack)].pc = "loop")]_vars

\* At a stop test below max_depth, the count of two nodes meets a ceiling of
\* two node sizes.
C9_Witness ==
    /\ AtCheck
    /\ Top.depth < settings.max_depth
    /\ settings.analysis
    /\ settings.max_mib = Ceiling(2)
    /\ analysis.node_count = 2
    /\ memory_exceeded

\* ---- C10 --------------------------------------------------------------------
\* C10: a call of full or greedy whose estimated usage after its expansion
\* meets the ceiling (telemetry on) returns at the stop test; so a search
\* from depth 0 whose first expansion meets the ceiling ends with a root
\* whose children are all leaves.
C10_CeilingStopsSearch ==
    /\ [][(AtCheck /\ settings.analysis /\ settings.max_mib.some
                   /\ UsageMeetsCeiling) => stack' = Pop]_vars
    /\ []((/\ SearchDone
           /\ hist.depth = 0
           /\ settings.max_depth >= 1
           /\ settings.analysis
           /\ settings.max_mib.some
           /\ (hist.count + Len(tree.children)) * node_size * settings.max_mib.val.den
                 >= settings.max_mib.val.num * 1048576)
          => \A i \in 1 .. Len(tree.children) : Leaf(tree.children[i].node))

\* full from depth 0 with max_depth >= 1 stopped after the first expansion
\* on a ceiling of two node sizes, leaving a child unexpanded that has a
\* successful action.
C10_Witness ==
    /\ Done("full")
    /\ hist.depth = 0
    /\ settings.max_depth >= 1
    /\ settings.analysis
    /\ settings.max_mib = Ceiling(2)
    /\ Len(tree.children) = 2
    /\ \A i \in 1 .. 2 : Leaf(tree.children[i].node)
    /\ ExpectedChildren(tree.children[1].node.data, CtxAt(tree, hist.ctx, <<1>>),
                        1, actlist) # <<>>

\* ---- C11 --------------------------------------------------------------------
\* The search frames of greedy that have descended into a child and wait for
\* its return.
Descended == {k \in 1 .. Len(stack) : stack[k].fn = "greedy" /\ stack[k].pc = "undo"}

\* C11: with greed_elim, every node greedy has descended from has exactly
\* one child, at the first index, which is the child it descended into; when
\* the search has returned no node has both a sibling and a child of its own
\* that was expanded; and with telemetry, a counter that was 0 at the call is
\* at most max_depth + the number of actions listed for a node on return.
C11_GreedyElim ==
    /\ (settings.greed_elim =>
            \A k \in Descended :
                /\ Len(NodeAt(tree, stack[k].path).children) = 1
                /\ stack[k].i = 1)
    /\ ((Done("greedy") /\ settings.greed_elim) =>
            \A p \in Paths(tree) :
                (\E i \in 1 .. Len(NodeAt(tree, p).children) :
                     ~Leaf(NodeAt(tree, p).children[i].node))
                    => Len(NodeAt(tree, p).children) = 1)
    /\ ((Done("greedy") /\ settings.greed_elim /\ settings.analysis
                        /\ hist.count = 0) =>
            analysis.node_count <= settings.max_depth + Len(actlist))

\* greedy with greed_elim and telemetry returned from a search over two
\* listed actions: the root kept one of its two children, the child kept both
\* of its own, and the counter stands at max_depth + 2.
C11_Witness ==
    /\ Done("greedy")
    /\ settings.greed_elim
    /\ settings.analysis
    /\ Len(actlist) = 2
    /\ Len(ExpectedChildren(tree.data, hist.ctx, hist.depth, actlist)) = 2
    /\ Len(tree.children) = 1
    /\ Len(tree.children[1].node.children) = 2
    /\ analysis.node_count = settings.max_depth + 2

\* ---- C12 --------------------------------------------------------------------
\* b^1 + b^2 + ... + b^n
RECURSIVE GeomSum(_, _)
GeomSum(b, n) == IF n = 0 THEN 0 ELSE b * (1 + GeomSum(b, n - 1))

\* No execute fails in the first n expansions from the state c: every listed
\* action succeeds in c and, for n > 1, the same holds in every state it
\* leads to.
RECURSIVE FailureFree(_, _, _)
FailureFree(data, c, n) ==
    \/ n = 0
    \/ \A i \in 1 .. Len(actions(data, c)) :
          LET r == execute(data, actions(data, c)[i], c)
          IN  r.ok /\ FailureFree(r.data, r.ctx, n - 1)

\* full(root, 0, ctx) on a fresh root with telemetry, a counter at 0 and no
\* ceiling has returned, and no execute failed in the levels it expands
\* (depth 0 .. max_depth).
FullCounted ==
    /\ FullDoneNoCeiling
    /\ settings.analysis
    /\ hist.count = 0
    /\ FailureFree(tree.data, hist.ctx, settings.max_depth + 1)

\* C12 as stated: the counter ends at b^1 + ... + b^max_depth.
C12_AsStated ==
    FullCounted => analysis.node_count = GeomSum(Len(actlist), settings.max_depth)

\* C12, amended: the counter ends at b^1 + ... + b^(max_depth + 1); the
\* expansion at depth max_depth still creates and counts its children.
C12_GeometricCount ==
    FullCounted => analysis.node_count = GeomSum(Len(actlist), settings.max_depth + 1)

\* Two listed actions, max_depth 1, no failure: 2 + 4 nodes counted.
C12_Witness ==
    /\ FullCounted
    /\ Len(actlist) = 2
    /\ settings.max_depth = 1
    /\ analysis.node_count = 6
    /\ Size(tree) = 7

\* ---- C14 --------------------------------------------------------------------
\* C14: after sub_breadth, full or greedy returned, check_unique_actions is
\* true on every node of the tree.
C14_UniqueActions ==
    (Done("sub_breadth") \/ SearchDone) =>
        \A p \in Paths(tree) : check_unique_actions(NodeAt(tree, p))

\* ---- C17 --------------------------------------------------------------------
\* The prefix of length j of a path.
Prefix(p, j) == SubSeq(p, 1, j)

\* C17: after greedy with greed_elim, along the path walked from the root by
\* repeated optimal(), each node's max is at least its parent's.
C17_CommittedPathMonotone ==
    (Done("greedy") /\ settings.greed_elim /\ op.pc \in {"loop", "done"}) =>
        \A j \in 1 .. Len(op.res) :
            /\ ~is_nan(NodeAt(tree, Prefix(op.res, j)).max)
            /\ NodeAt(tree, Prefix(op.res, j - 1)).max
                   <= NodeAt(tree, Prefix(op.res, j)).max

\* The walk after a pruning greedy search went two steps, to a node that is
\* better than the root's own state, and is complete.
C17_Witness ==
    /\ Done("greedy")
    /\ settings.greed_elim
    /\ op.pc = "done"
    /\ Len(op.res) = 2
    /\ tree.max > Own(<<>>)
    /\ Len(ExpectedChildren(tree.data, hist.ctx, hist.depth, actlist)) = 2

\* ---- C18 --------------------------------------------------------------------
\* A greedy search with greed_elim and telemetry, started with the counter at
\* 0, is running or has returned.
GreedyElimCounted ==
    /\ hist.fn = "greedy"
    /\ settings.greed_elim
    /\ settings.analysis
    /\ hist.count = 0

\* C18 as stated: the counter is at most max_depth + 1 in every state.
C18_AsStated ==
    GreedyElimCounted => analysis.node_count <= settings.max_depth + 1

\* C18, amended: in every state of the search the counter is at most
\* max_depth + the number of actions listed for a node, or max_depth + 1
\* where fewer than one action is listed: the children of the node being
\* expanded are all counted until the pruning, and the last expansion is
\* never pruned.
C18_CountBounded ==
    [](GreedyElimCounted =>
           analysis.node_count <= settings.max_depth + MaxOf({1, Len(actlist)}))

\* In the middle of the search, after the second expansion and before any
\* pruning of it, the counter is at max_depth + 2.
C18_Witness ==
    /\ GreedyElimCounted
    /\ stack # <<>>
    /\ Top.fn = "greedy"
    /\ Top.pc = "check"
    /\ Len(Top.path) = 1
    /\ Len(actlist) = 2
    /\ analysis.node_count = settings.max_depth + 2

\* ---- C20 --------------------------------------------------------------------
\* C20: utility_with_settings is utility minus eps_depth times the depth
\* (utility itself when eps_depth = 0), for every state and depth, under the
\* settings and the utility table of every state before the first call (they
\* do not change afterwards); a node full or greedy is called on
\* (a fresh root, or a child in the recursion) carries, once the call has
\* passed its first statement, its own utility discounted by the depth
\* argument; every child
\* sub_breadth(node, depth, ..) has pushed carries its utility discounted by
\* depth + 1; and after a search from depth 0 on a fresh root every leaf
\* carries its utility discounted by its distance from the root.
C20_DiscountByDepth ==
    [](/\ (stack = <<>> /\ hist.fn = "none") =>
             \A c \in Ctx, k \in 0 .. MaxDepthBound + 1 :
                 /\ utility_with_settings(c, k, c)
                        = utility(c, c) - settings.eps_depth * k
                 /\ settings.eps_depth = 0
                        => utility_with_settings(c, k, c) = utility(c, c)
       /\ \A k \in 1 .. Len(stack) - 1 :
             (/\ IsSearch(stack[k])
              /\ k = 1 => hist.fresh
              /\ k + 1 = Len(stack)
              /\ stack[k + 1].fn = "sub_breadth"
              /\ stack[k + 1].pc = "entry")
                 => NodeAt(tree, stack[k].path).max
                        = utility(NodeAt(tree, stack[k].path).data, ctx)
                              - settings.eps_depth * stack[k].depth
       /\ (stack # <<>> /\ Top.fn = "sub_breadth" /\ Top.pc = "loop")
              => LET n == NodeAt(tree, Top.path)
                 IN  \A j \in 1 .. Len(n.children) :
                         LET ch == n.children[j]
                             c == execute(n.data, ch.action, Top.ctx0).ctx
                         IN  ch.node.max = utility(ch.node.data, c)
                                               - settings.eps_depth * (Top.depth + 1)
       /\ (SearchDone /\ hist.fresh /\ hist.depth = 0)
              => \A p \in Paths(tree) :
                     Leaf(NodeAt(tree, p))
                         => NodeAt(tree, p).max
                                = utility(NodeAt(tree, p).data, CtxAt(tree, hist.ctx, p))
                                      - settings.eps_depth * Len(p))

\* With a discount of 1, a search from depth 0 left a leaf two steps from
\* the root whose state has utility 1 and whose max is 1 - 2.
C20_Witness ==
    /\ SearchDone
    /\ hist.fresh
    /\ hist.depth = 0
    /\ settings.eps_depth = 1
    /\ \E p \in Paths(tree) :
          /\ Len(p) = 2
          /\ Leaf(NodeAt(tree, p))
          /\ utility(NodeAt(tree, p).data, CtxAt(tree, hist.ctx, p)) = 1
          /\ NodeAt(tree, p).max = 0 - 1

\* ---- C13 --------------------------------------------------------------------
\* A step is a call of update: the walk's record changes and is not reset.
IsUpdate == upd' # upd /\ upd'.pc # "idle"

\* What every call of update does, whatever it returns: the tree and the
\* counter are unchanged; on a terminal node no callback is issued, ctx is
\* untouched and None is returned; otherwise the one callback issued is
\* execute with the node's data and the action of children[i] on the live
\* ctx, which is left as that execute left it, with no undo.
UpdateEffect ==
    LET n == NodeAt(tree, upd.node)
        i == optimal(n)
    IN  /\ tree' = tree
        /\ analysis' = analysis
        /\ IF i = 0
           THEN /\ cb'.ev = <<>>
                /\ ctx' = ctx
                /\ upd'.ret = 0
           ELSE /\ Len(cb'.ev) = 1
                /\ cb'.ev[1].cb = "execute"
                /\ cb'.ev[1].arg = n.data
                /\ cb'.ev[1].node = Append(upd.node, i)
                /\ cb'.ev[1].ok = execute(n.data, n.children[i].action, ctx).ok
                /\ ctx' = execute(n.data, n.children[i].action, ctx).ctx

\* C13 as stated: whenever optimal() is Some(i), update returns Some(i).
C13_AsStated ==
    [][IsUpdate =>
          /\ UpdateEffect
          /\ optimal(NodeAt(tree, upd.node)) # 0
                 => upd'.ret = optimal(NodeAt(tree, upd.node))]_vars

\* C13, amended: when optimal() is Some(i), update returns Some(i) if the
\* execute succeeded and None if it failed.
C13_Update ==
    [][IsUpdate =>
          /\ UpdateEffect
          /\ optimal(NodeAt(tree, upd.node)) # 0
                 => upd'.ret = IF cb'.ev[1].ok
                               THEN optimal(NodeAt(tree, upd.node)) ELSE 0]_vars

\* The walk advanced by two updates and the third, on a node that is not
\* terminal, got an Err from execute and returned None.
C13_Witness ==
    /\ upd.pc = "done"
    /\ upd.ret = 0
    /\ Len(upd.node) = 2
    /\ optimal(NodeAt(tree, upd.node)) # 0
    /\ Len(cb.ev) = 1
    /\ cb.ev[1].cb = "execute"
    /\ ~cb.ev[1].ok

\* ---- examples/labyrinth.rs ----------------------------------------------------
\* main: the Ai with the labyrinth callbacks and AiSettings::new(4, 0.00001),
\* a fresh root on the start position, the map as context.
InitLab ==
    /\ settings = AiSettings_new(LabMaxDepth, 1)
    /\ analysis = [node_count |-> 0]
    /\ util = [c \in Ctx |-> 0]
    /\ actlist = LabActions
    /\ ctx = LabMap
    /\ tree = root(LabStart)
    /\ stack = <<>>
    /\ hist = NoCall
    /\ op = OpIdle
    /\ world = "labyrinth"
    /\ upd = UpdIdle
    /\ cb = NoCallbacks

\* ai.full(&mut root, 0, map), the settings as constructed.
LabCallFull ==
    Call("full", 0, settings.analysis, settings.max_mib, settings.greed_elim)

\* The search, then the walk from the root by optimal().
NextLab ==
    \/ LabCallFull
    \/ SubBreadthStart
    \/ SubBreadthStep
    \/ SubBreadthReturn
    \/ FullEntry
    \/ FullCheck
    \/ FullStep
    \/ FullUndo
    \/ FullReturn
    \/ OptimalPathStart
    \/ OptimalPathStep
    \/ OptimalPathBreak

SpecLab == InitLab /\ [][NextLab]_vars

\* ---- C15 --------------------------------------------------------------------
\* C15: in the labyrinth scenario, after the full search from the fresh root
\* the walk by optimal() ends after at most 4 steps on a node whose position
\* is (2,0).
C15_Labyrinth ==
    (Done("full") /\ op.pc = "done") =>
        /\ Len(op.res) <= 4
        /\ NodeAt(tree, op.res).data = <<2, 0>>

\* The walk is complete, took 4 steps and stands on (2,0); the search went
\* through the whole depth (a node 5 steps from the root exists).
C15_Witness ==
    /\ world = "labyrinth"
    /\ Done("full")
    /\ op.pc = "done"
    /\ Len(op.res) = 4
    /\ NodeAt(tree, op.res).data = <<2, 0>>
    /\ tree.max = LabUnitsPerOne - 4
    /\ \E p \in Paths(tree) : Len(p) = LabMaxDepth + 1

\* ---- C16 --------------------------------------------------------------------
\* C16: with telemetry on in every call so far, whenever no call is running
\* the counter equals the number of nodes of the tree other than the root.
C16_CounterIsLiveNodes ==
    (stack = <<>> /\ hist.fn # "none" /\ settings.analysis) =>
        analysis.node_count = Size(tree) - 1

\* ---- C19 --------------------------------------------------------------------
\* The callbacks of the search functions (update's execute has no undo).
IsDriverEv(e) == e.who # "update"

\* p is a proper prefix of q: q is a node below p.
Below(p, q) == Len(p) < Len(q) /\ SubSeq(q, 1, Len(p)) = p

\* The callbacks evs, issued in this order while the executes of `open` await
\* their undo, seen as brackets: a successful execute opens a bracket for
\* its child, and only below every child that has one open (so never while
\* a sibling's is open); a failed execute opens none; sub_breadth's utility
\* of a child comes inside that child's bracket; an undo closes the
\* innermost bracket, which is that of the same child and function, and is
\* given the data that execute returned. The result is whether all of this
\* held and the brackets left open.
RECURSIVE Nest(_, _)
Nest(open, evs) ==
    IF evs = <<>> THEN [ok |-> TRUE, open |-> open]
    ELSE LET e == Head(evs)
             top == open[Len(open)]
             bad == [ok |-> FALSE, open |-> open]
         IN  CASE e.cb = "execute" /\ e.ok ->
                    IF \A j \in 1 .. Len(open) : Below(open[j].node, e.node)
                    THEN Nest(Append(open, Bracket(e.who, e.node, e.res)), Tail(evs))
                    ELSE bad
               [] e.cb = "execute" /\ ~e.ok ->
                    IF \A j \in 1 .. Len(evs) : j > 1 => evs[j].node # e.node
                    THEN Nest(open, Tail(evs))
                    ELSE bad
               [] e.cb = "utility" /\ e.who = "sub_breadth" ->
                    IF open # <<>> /\ top.node = e.node /\ top.who = e.who
                                   /\ top.data = e.arg
                    THEN Nest(open, Tail(evs))
                    ELSE bad
               [] e.cb = "undo" ->
                    IF open # <<>> /\ top.node = e.node /\ top.who = e.who
                                   /\ top.data = e.arg
                    THEN Nest(SubSeq(open, 1, Len(open) - 1), Tail(evs))
                    ELSE bad
               [] OTHER -> Nest(open, Tail(evs))

\* The calls of full and greedy on the stack, outermost first.
SearchFrames == SelectSeq(stack, IsSearch)

\* A call of full or greedy that has executed a child's action and not yet
\* undone it.
AwaitsUndo(f) == IsSearch(f) /\ f.pc = "undo"

Waiting == SelectSeq(stack, AwaitsUndo)

\* C19: the callbacks of every step continue a proper nesting of
\* execute/undo brackets; a step of sub_breadth is either a failed execute
\* alone or execute, the child's utility and the undo with the child's data,
\* in this order; an undo of full or greedy is given the data of the child
\* its execute was for; the brackets open in a state are exactly those of
\* the calls of full and greedy that wait to undo, outermost first; and each
\* call of full or greedy below the outermost is on the child its caller
\* has executed and not yet undone.
C19_BracketsNested ==
    /\ [][LET evs == SelectSeq(cb'.ev, IsDriverEv)
              res == Nest(cb.open, evs)
          IN  /\ res.ok
              /\ res.open = cb'.open
              /\ \A j \in 1 .. Len(evs) :
                    /\ (evs[j].cb = "execute" /\ evs[j].who = "sub_breadth") =>
                           IF evs[j].ok
                           THEN /\ Len(evs) = 3
                                /\ j = 1
                                /\ evs[2].cb = "utility"
                                /\ evs[3].cb = "undo"
                                /\ evs[3].arg
                                       = NodeAt(tree', evs[1].node).data
                           ELSE Len(evs) = 1
                    /\ evs[j].cb = "undo" =>
                           evs[j].arg = NodeAt(tree', evs[j].node).data]_vars
    /\ [](/\ Len(cb.open) = Len(Waiting)
          /\ \A j \in 1 .. Len(cb.open) :
                /\ cb.open[j].who = Waiting[j].fn
                /\ cb.open[j].node = Append(Waiting[j].path, Waiting[j].i)
          /\ \A k \in 2 .. Len(SearchFrames) :
                /\ SearchFrames[k - 1].pc = "undo"
                /\ SearchFrames[k].path
                       = Append(SearchFrames[k - 1].path, SearchFrames[k - 1].i))

\* Inside the bracket of full's execute for the root's first child,
\* sub_breadth on that child has just made a complete bracket of its own:
\* execute, utility, undo.
C19_Witness ==
    /\ Len(cb.open) = 1
    /\ cb.open[1].who = "full"
    /\ stack # <<>>
    /\ Top.fn = "sub_breadth"
    /\ Top.path = cb.open[1].node
    /\ Len(cb.ev) = 3
    /\ cb.ev[1].cb = "execute"
    /\ cb.ev[1].ok
    /\ cb.ev[3].cb = "undo"
    /\ Len(NodeAt(tree, Top.path).children) = 2

\* ---- C28 --------------------------------------------------------------------
\* C28: while and after sub_breadth runs as the top-level call on a fresh
\* root, the root's max stays NaN whatever children are pushed, and on
\* return the root reports terminal() = true and optimal() = None; after
\* full or greedy on a fresh root, the root's max is a number.
C28_SubBreadthLeavesNaN ==
    [](/\ (hist.fn = "sub_breadth" /\ hist.fresh) =>
              /\ is_nan(tree.max)
              /\ stack = <<>> => (terminal(tree) /\ optimal(tree) = 0)
       /\ (SearchDone /\ hist.fresh) => ~is_nan(tree.max))

\* sub_breadth returned on a fresh root with two children, one of utility 1
\* at least; the root's max is still NaN.
C28_Witness ==
    /\ Done("sub_breadth")
    /\ hist.fresh
    /\ Len(tree.children) = 2
    /\ \E i \in 1 .. 2 : tree.children[i].node.max = 1
    /\ is_nan(tree.max)
    /\ terminal(tree)

\* ---- C21 --------------------------------------------------------------------
\* The nodes the running calls are working on: the root and the node of
\* every frame.
Visited == {<<>>} \cup {stack[k].path : k \in 1 .. Len(stack)}

\* Some search has raised an evaluated node above its own utility and a
\* later call has entered that node again.
Reentered ==
    /\ hist.n = 2
    /\ stack # <<>>
    /\ stack[1].pc # "entry"
    /\ ~IsFresh(hist.prev.tree)

\* C21: a node's own utility is evaluated only once, on the first visit. The
\* prologue of full and of greedy calls utility and assigns the discounted
\* own utility to node.max exactly when node.max is still NaN at entry; on
\* an evaluated node it calls no utility and leaves max as it is; and no
\* step of sub_breadth, full or greedy lowers the max of an evaluated node
\* it is working on.
C21_EvaluateOnce ==
    [][/\ \A fn \in {"full", "greedy"} :
              (stack # <<>> /\ Top.fn = fn /\ Top.pc = "entry") =>
                  LET n  == NodeAt(tree, Top.path)
                      n2 == NodeAt(tree', Top.path)
                  IN  IF is_nan(n.max)
                      THEN /\ n2.max = utility(n.data, ctx)
                                          - settings.eps_depth * Top.depth
                           /\ cb'.ev = <<UtilityEv(fn, Top.path, n.data)>>
                      ELSE /\ n2.max = n.max
                           /\ cb'.ev = <<>>
       /\ stack # <<>> =>
              \A p \in Visited :
                  ~is_nan(NodeAt(tree, p).max) =>
                      NodeAt(tree', p).max >= NodeAt(tree, p).max]_vars

\* full has entered, and passed the prologue of, a root that greedy had
\* raised above its own utility.
C21_Witness ==
    /\ Reentered
    /\ hist.fn = "full"
    /\ hist.prev.tree.max > Own(<<>>)
    /\ tree.max = hist.prev.tree.max

\* ---- C22 --------------------------------------------------------------------
\* C22: when a call of sub_breadth, full or greedy on an already searched
\* and evaluated root has returned (same context, no depth discount, so that
\* a node's own utility does not depend on the depth argument), the root's
\* children
\* are what this call created (after sub_breadth: leaves only) and the root
\* satisfies the maximum-tree invariant: its max is the maximum of its own
\* utility and its children's max.
C22_RepeatedCallResets ==
    (stack = <<>> /\ hist.n >= 2 /\ settings.eps_depth = 0 /\ ~is_nan(tree.max)) =>
        /\ hist.fn = "sub_breadth" =>
               \A i \in 1 .. Len(tree.children) : Leaf(tree.children[i].node)
        /\ MaxInvariantAt(<<>>)

\* ---- C23 --------------------------------------------------------------------
\* C23: after full or greedy on a fresh root in context c0, the walk that
\* calls update on the current node and moves to the returned child stays
\* on root.optimal_path() and ends, when update returns None, with exactly
\* that index sequence; the context is c0 with the actions along the part
\* walked executed in order, none of them undone.
C23_WalkIsOptimalPath ==
    []((SearchDone /\ hist.fresh /\ upd.pc # "idle") =>
           /\ Len(upd.node) <= Len(optimal_path(tree))
           /\ upd.node = Prefix(optimal_path(tree), Len(upd.node))
           /\ ctx = CtxAt(tree, hist.ctx, upd.node)
           /\ cb.open = <<>>
           /\ upd.pc = "done" => upd.node = optimal_path(tree))

\* The walk ended after two steps, in a context other than c0.
C23_Witness ==
    /\ SearchDone
    /\ hist.fresh
    /\ upd.pc = "done"
    /\ Len(upd.node) = 2
    /\ upd.node = optimal_path(tree)
    /\ ctx # hist.ctx

\* ---- C24 --------------------------------------------------------------------
\* Every index of path p is an index of the children it is applied to.
RECURSIVE InTree(_, _)
InTree(n, p) ==
    \/ p = <<>>
    \/ /\ Head(p) \in 1 .. Len(n.children)
       /\ InTree(n.children[Head(p)].node, Tail(p))

\* C24: with an undo that is a correct inverse, no state of sub_breadth,
\* full, greedy or update uses a child index out of bounds or takes the
\* counter below zero: every running call and the update walk are on a node
\* of the tree, a call that has descended holds the index of an existing
\* child (index 0 of a one-child vector after pruning), the index greedy
\* gets from optimal() is in bounds, and the counter covers what the prune
\* is about to subtract.
C24_NoCrash ==
    [](/\ analysis.node_count >= 0
       /\ InTree(tree, upd.node)
       /\ \A k \in 1 .. Len(stack) :
              /\ InTree(tree, stack[k].path)
              /\ stack[k].pc = "undo" =>
                     /\ stack[k].i \in 1 .. Len(NodeAt(tree, stack[k].path).children)
                     /\ (stack[k].fn = "greedy" /\ settings.greed_elim) =>
                            /\ stack[k].i = 1
                            /\ Len(NodeAt(tree, stack[k].path).children) = 1
       /\ (stack # <<>> /\ Top.fn = "greedy" /\ Top.pc = "loop") =>
              LET n == NodeAt(tree, Top.path)
              IN  optimal(n) # 0 =>
                      /\ optimal(n) \in 1 .. Len(n.children)
                      /\ (settings.greed_elim /\ settings.analysis) =>
                             analysis.node_count >= Len(n.children) - 1)

\* greedy, counting and pruning, dropped a sibling and went on below the
\* child it kept, and the walk by update has moved onto that child.
C24_Witness ==
    /\ Done("greedy")
    /\ hist.fresh
    /\ settings.analysis
    /\ settings.greed_elim
    /\ Len(actlist) = 2
    /\ Len(tree.children) = 1
    /\ ~Leaf(tree.children[1].node)
    /\ analysis.node_count = Size(tree) - 1
    /\ Len(upd.node) >= 1

\* ---- C25 --------------------------------------------------------------------
\* The second search of the pair has returned; it was fn on a new fresh
\* root.
PairDone(fn) ==
    /\ stack = <<>>
    /\ hist.n = 2
    /\ hist.fn = fn
    /\ hist.fresh

ElimTree == IF settings.greed_elim THEN tree ELSE hist.prev.tree

KeptTree == IF settings.greed_elim THEN hist.prev.tree ELSE tree

\* The actions along path p of n, and the max of the nodes along it.
RECURSIVE ActionsAlong(_, _)
ActionsAlong(n, p) ==
    IF p = <<>> THEN <<>>
    ELSE <<n.children[Head(p)].action>>
             \o ActionsAlong(n.children[Head(p)].node, Tail(p))

RECURSIVE MaxesAlong(_, _)
MaxesAlong(n, p) ==
    IF p = <<>> THEN <<n.max>>
    ELSE <<n.max>> \o MaxesAlong(n.children[Head(p)].node, Tail(p))

\* Tree n, searched by greedy from depth d without pruning, with the
\* siblings of every child greedy descended into taken away.
RECURSIVE WithoutSiblings(_, _)
WithoutSiblings(n, d) ==
    IF d >= settings.max_depth \/ optimal(n) = 0 THEN n
    ELSE LET ch == n.children[optimal(n)]
         IN  [n EXCEPT !.children =
                  <<[action |-> ch.action, node |-> WithoutSiblings(ch.node, d + 1)]>>]

\* The siblings that WithoutSiblings takes away are leaves.
RECURSIVE SiblingsAreLeaves(_, _)
SiblingsAreLeaves(n, d) ==
    \/ d >= settings.max_depth
    \/ optimal(n) = 0
    \/ /\ \A i \in 1 .. Len(n.children) :
              i # optimal(n) => Leaf(n.children[i].node)
       /\ SiblingsAreLeaves(n.children[optimal(n)].node, d + 1)

\* C26: for the same fresh root, context and callbacks, without a memory
\* ceiling, greedy with greed_elim on and greedy with greed_elim off leave
\* the same root.max and the same actions and the same max values along
\* optimal_path(), and the pruned tree is the unpruned one without the
\* siblings of the children descended into, all of which are leaves.
C26_ElimKeepsResult ==
    PairDone("greedy") =>
        /\ ElimTree.max = KeptTree.max
        /\ ActionsAlong(ElimTree, optimal_path(ElimTree))
               = ActionsAlong(KeptTree, optimal_path(KeptTree))
        /\ MaxesAlong(ElimTree, optimal_path(ElimTree))
               = MaxesAlong(KeptTree, optimal_path(KeptTree))
        /\ ElimTree = WithoutSiblings(KeptTree, hist.depth)
        /\ SiblingsAreLeaves(KeptTree, hist.depth)

\* Both searches descended into the second of two children: the pruned
\* tree has it as its only child, and the optimal paths have different
\* indices.
C26_Witness ==
    /\ PairDone("greedy")
    /\ Len(KeptTree.children) = 2
    /\ optimal(KeptTree) = 2
    /\ ~Leaf(KeptTree.children[2].node)
    /\ Len(ElimTree.children) = 1
    /\ optimal_path(ElimTree) # optimal_path(KeptTree)

\* ---- C27 --------------------------------------------------------------------
\* The node at path p, not the root, has been expanded below.
Expanded(p) == p # <<>> /\ ~Leaf(NodeAt(tree, p))

\* C27: when the call of greedy on a node it descended from returns, and
\* from then on, optimal() on that node is the child greedy descended into
\* (the only child when pruned, the index optimal() gave before the descent
\* otherwise) and that child's max equals the node's max; after greedy
\* has returned this holds at the parent of every expanded node.
C27_OptimalIsDescended ==
    /\ [][(stack # <<>> /\ Top.fn = "greedy" /\ Top.pc = "undo") =>
              LET f  == Top
                  n  == NodeAt(tree, f.path)
                  n2 == NodeAt(tree', f.path)
              IN  /\ optimal(n2) = f.i
                  /\ n2.children[f.i].node.max = n2.max
                  /\ n2.children = n.children
                  /\ IF settings.greed_elim
                     THEN f.i = 1 /\ Len(n2.children) = 1
                     ELSE f.i = optimal(n)]_vars
    /\ [](Done("greedy") =>
              \A p \in Paths(tree) :
                  Expanded(p) =>
                      LET q == NodeAt(tree, Prefix(p, Len(p) - 1))
                      IN  /\ optimal(q) = p[Len(p)]
                          /\ q.children[p[Len(p)]].node.max = q.max)

\* greedy, not pruning, descended into the second child of the root, whose
\* max is the root's, above the root's own utility.
C27_Witness ==
    /\ Done("greedy")
    /\ ~settings.greed_elim
    /\ Len(tree.children) = 2
    /\ optimal(tree) = 2
    /\ Expanded(<<2>>)
    /\ tree.max > Own(<<>>)
    /\ tree.children[2].node.max = tree.max

====
